---- MODULE Spec2Model ----
(***************************************************************************)
(* Model of the slide question-answering dashboard:                        *)
(*   - EmbeddingsService (app/services/embeddings.py): the "slides"        *)
(*     collection of the vector database, upsert / search / clear;         *)
(*   - QueryEngine (app/services/query_engine.py): query, chat and the     *)
(*     confidence score;                                                   *)
(*   - the Streamlit session (app/components/upload.py, chat.py, main.py): *)
(*     upload, chat turn, clear chat, quick actions.                       *)
(*                                                                         *)
(* Numbers.  A distance is an integer count of 1/DistUnit; a confidence is *)
(* an integer count of hundredths (round(x, 2) * 100).  For distances that *)
(* are halves or thirds the exact arithmetic below gives the value the     *)
(* float arithmetic of the code gives: every tie of the rounding that      *)
(* occurs (.125, .375, .625, .875) is a binary fraction.                   *)
(***************************************************************************)
EXTENDS Integers, Sequences, FiniteSets, TLC

VARIABLES
    collection_id,      \* id of the database's current "slides" collection
    collection,         \* the entries of that collection (a set of records)
    client,             \* QueryEngine.client is set (a credential is configured)
    res,                \* record of the last service call and what it returned
    uploaded_file,      \* the file held by the st.file_uploader widget, or NoFile
    processed_file,     \* st.session_state.processed_file, or Absent
    embeddings_ready,   \* st.session_state.embeddings_ready
    messages,           \* st.session_state.messages
    query_engine,       \* st.session_state.query_engine: Absent or the engine's collection handle
    pending_query,      \* st.session_state.pending_query, or Absent
    rerun_requested,    \* st.rerun() ended the last run of the script
    shown,              \* what the last run of the script displayed
    language,           \* st.session_state.language
    suggested,          \* st.session_state["suggested_questions_<lang>"], per language
    log,                \* what the last run of the script did: exceptions raised,
                        \* question lists generated, cache keys deleted
    uploaders,          \* the uploads of two sessions that share the database
    ids_used            \* the number of collections the database has created

vars == <<collection_id, collection, client, res, uploaded_file, processed_file,
          embeddings_ready, messages, query_engine, pending_query,
          rerun_requested, shown, language, suggested, log, uploaders, ids_used>>

svcVars == <<collection_id, collection, client>>
sessVars == <<uploaded_file, processed_file, embeddings_ready, messages,
              query_engine, pending_query, rerun_requested, shown,
              language, suggested, log, uploaders, ids_used>>

(***************************************************************************)
(* Bounds of the model                                                     *)
(***************************************************************************)
DistUnit == 2       \* a distance is a multiple of 1/DistUnit
MaxLen == 3         \* longest synthetic result list given to _calculate_confidence
NumIds == 2         \* distinct slide ids offered to add_slide / add_slides_batch
MaxBatch == 2       \* longest batch given to add_slides_batch
MaxStore == 6       \* largest store the query engine is exercised on
MaxK == 2           \* n_results offered to query are 1..MaxK and HistoryTopK
MaxSlides == 2      \* most slides in an uploaded presentation
MaxTurns == 2       \* most chat turns (user + assistant pairs) in a session
MaxCollections == 3 \* most collections ever created (one per upload)
MaxReplyLines == 2  \* most lines in a reply to the example-questions prompt
MaxCols == 3        \* most cells in a table row or header
MaxRows == 2        \* most rows in a table

(***************************************************************************)
(* Program constants                                                       *)
(***************************************************************************)
ChatTopK == 5
HistoryWindow == 10
PreviewLen == 300
ChatContextLen == 500
EllipsisLen == 3
SampleTopK == 5
SampleLen == 300
SuggestedCount == 6

Absent == "<absent>"        \* a key missing from st.session_state / a None
NoneValue == "<None>"       \* a Python None held as a metadata value
NoFile == [name |-> Absent, slides |-> <<>>]
NoProcessedFile == [name |-> Absent, data |-> <<>>]
NoEngine == [created |-> FALSE, handle |-> 0]
NoPresentation == [filename |-> Absent, total_slides |-> 0, slides |-> <<>>]
NotCached == [cached |-> FALSE, questions |-> <<>>]
Uploaders == {1, 2}
IdleUploader == [pc |-> "idle", handle |-> 0, file |-> NoFile]

Min(a, b) == IF a <= b THEN a ELSE b
Max(a, b) == IF a >= b THEN a ELSE b

RECURSIVE SumOf(_, _)
SumOf(f, n) == IF n = 0 THEN 0 ELSE f[n] + SumOf(f, n - 1)

(***************************************************************************)
(* Contents and their embedding distances.  A content is a text of a given *)
(* length; the distance of a query to a content is fixed by the embedding  *)
(* model, here a table.                                                    *)
(***************************************************************************)
Questions == {"q1", "q2"}
Contents == {[txt |-> "t1", len |-> 120], [txt |-> "t2", len |-> 650]}
Filenames == {"A.pptx", "B.pptx"}

Distance(query, content) ==
    CASE query = "q1" /\ content.txt = "t1" -> 1
      [] query = "q1" /\ content.txt = "t2" -> 3
      [] query = "q2" /\ content.txt = "t1" -> 5
      [] query = "q2" /\ content.txt = "t2" -> 0
      [] OTHER -> 2

\* a slide id f"{filename}_slide_{n}" is the pair of its parts
SlideId(filename, n) == [file |-> filename, num |-> n]
IdRank(id) == (IF id.file = "A.pptx" THEN 0 ELSE 1000) + id.num

\* content[:n]
Truncate(content, n) == [txt |-> content.txt, len |-> Min(content.len, n)]

(***************************************************************************)
(* EmbeddingsService                                                       *)
(***************************************************************************)
\* add_slide / add_slides_batch: metadata values keep scalars, None becomes ""
CleanValue(value) == IF value = NoneValue THEN "" ELSE value

\* filename (str) and slide_number (int) take the isinstance branch and are
\* kept; the title is the value that may be None
CleanMetadata(metadata) ==
    [filename |-> metadata.filename,
     slide_number |-> metadata.slide_number,
     title |-> CleanValue(metadata.title)]

\* collection.upsert of one (id, document, metadata): replaces the entry of that id
UpsertOne_Append(entries, slide) ==
    entries \cup {[id |-> slide.id, content |-> slide.content,
                   metadata |-> CleanMetadata(slide.metadata)]}

UpsertOne(entries, slide) ==
    {e \in entries : e.id # slide.id}
        \cup {[id |-> slide.id, content |-> slide.content,
               metadata |-> CleanMetadata(slide.metadata)]}

RECURSIVE UpsertAll(_, _)
UpsertAll(entries, slides) ==
    IF slides = <<>> THEN entries
    ELSE UpsertAll(UpsertOne(entries, Head(slides)), Tail(slides))

DistinctIds(slides) ==
    \A i, j \in 1..Len(slides) : slides[i].id = slides[j].id => i = j

\* add_slide: returns the entries after the call
add_slide(entries, slide_id, content, metadata) ==
    UpsertOne(entries, [id |-> slide_id, content |-> content, metadata |-> metadata])

\* add_slides_batch: an empty batch returns at once; upsert rejects a batch
\* that repeats an id (chromadb's validation) and then changes nothing
add_slides_batch(entries, slides) ==
    IF slides = <<>> THEN [raised |-> FALSE, entries |-> entries]
    ELSE IF ~DistinctIds(slides) THEN [raised |-> TRUE, entries |-> entries]
    ELSE [raised |-> FALSE, entries |-> UpsertAll(entries, slides)]

\* clear_collection: delete the collection and create a new, empty "slides"
\* collection (a new collection id), to which the service's handle now points
clear_collection(coll_id) == [coll_id |-> coll_id + 1, entries |-> {}]

\* the order collection.query ranks in: ascending distance, then a fixed
\* order of the entries (id, then content)
Before(query, a, b) ==
    \/ Distance(query, a.content) < Distance(query, b.content)
    \/ /\ Distance(query, a.content) = Distance(query, b.content)
       /\ \/ IdRank(a.id) < IdRank(b.id)
          \/ IdRank(a.id) = IdRank(b.id) /\ a.content.len <= b.content.len

RECURSIVE Ranked(_, _)
Ranked(query, entries) ==
    IF entries = {} THEN <<>>
    ELSE LET first == CHOOSE a \in entries :
                          \A b \in entries : a = b \/ Before(query, a, b)
         IN <<first>> \o Ranked(query, entries \ {first})

\* the formatted list search returns: the first n_results of the ranking
Formatted(query, ranked, n_results) ==
    [i \in 1..Min(n_results, Len(ranked)) |->
        [id |-> ranked[i].id,
         content |-> ranked[i].content,
         metadata |-> ranked[i].metadata,
         distance |-> Distance(query, ranked[i].content)]]

\* search: the handle of a deleted collection raises; otherwise the first
\* n_results entries of the ranking, formatted
search(coll_id, entries, handle, query, n_results) ==
    IF handle # coll_id THEN [raised |-> TRUE, results |-> <<>>]
    ELSE [raised |-> FALSE,
          results |-> Formatted(query, Ranked(query, entries), n_results)]

(***************************************************************************)
(* QueryEngine._calculate_confidence                                       *)
(***************************************************************************)
\* r.get('distance', 1.0)
GetDistance(r) == IF "distance" \in DOMAIN r THEN r.distance ELSE DistUnit

Round2_Floor(num, den) == (100 * num) \div den

\* round(num/den, 2) in hundredths for 0 <= num/den <= 1: nearest, ties to even
Round2(num, den) ==
    LET q == (100 * num) \div den
        r == (100 * num) % den
    IN IF 2 * r < den THEN q
       ELSE IF 2 * r > den THEN q + 1
       ELSE IF q % 2 = 0 THEN q ELSE q + 1

Clamped(total, n) ==
    LET den == 2 * DistUnit * n
        num == den - total
    IN [num |-> Max(0, Min(den, num)), den |-> den]

Confidence_NoClamp(results) ==
    IF results = <<>> THEN 0
    ELSE LET n == Len(results)
             total == SumOf([i \in 1..n |-> GetDistance(results[i])], n)
         IN Round2(2 * DistUnit * n - total, 2 * DistUnit * n)

_calculate_confidence(results) ==
    IF results = <<>> THEN 0
    ELSE LET n == Len(results)
             total == SumOf([i \in 1..n |-> GetDistance(results[i])], n)
             c == Clamped(total, n)
         IN Round2(c.num, c.den)

(***************************************************************************)
(* QueryEngine.  A text shown to the user or sent to the model is a record *)
(* [kind, text, items]; a call of the generation model is the request sent *)
(* and its outcome is "fail" (the call raises) or the reply's text.        *)
(***************************************************************************)
GenFail == "fail"
GenOutcomes == {GenFail, "r1"}

Text(kind, text, items) == [kind |-> kind, text |-> text, items |-> items]

\* dict.get(key, default) on a metadata mapping
MetaGet(metadata, key, default) ==
    IF key \in DOMAIN metadata THEN metadata[key] ELSE default

NoInfoAnswer ==
    Text("no_info", "I couldn't find any relevant information in the uploaded slides.", <<>>)

Raised(calls) ==
    [raised |-> TRUE, answer |-> Text("raised", "", <<>>),
     relevant_slides |-> <<>>, confidence |-> 0, calls |-> calls]

\* _generate_response: one section per slide, one user turn, one model call
_generate_response(has_client, question, relevant_slides, gen) ==
    LET context_parts ==
            [i \in 1..Len(relevant_slides) |->
                [slide_number |-> MetaGet(relevant_slides[i].metadata, "slide_number", 0),
                 filename |-> MetaGet(relevant_slides[i].metadata, "filename", "Unknown"),
                 content |-> relevant_slides[i].content]]
        request ==
            [system |-> <<>>,
             messages |-> <<[role |-> "user",
                             content |-> Text("prompt", question, context_parts)]>>]
    IN IF ~has_client THEN [raised |-> TRUE, calls |-> <<>>, text |-> Text("raised", "", <<>>)]
       ELSE IF gen = GenFail
            THEN [raised |-> TRUE, calls |-> <<request>>, text |-> Text("raised", "", <<>>)]
       ELSE [raised |-> FALSE, calls |-> <<request>>, text |-> Text("llm", gen, <<>>)]

\* _generate_simple_response: number, title and a preview of each slide
_generate_simple_response(question, relevant_slides) ==
    Text("simple", "",
         [i \in 1..Len(relevant_slides) |->
             [slide_number |-> MetaGet(relevant_slides[i].metadata, "slide_number", 0),
              title |-> MetaGet(relevant_slides[i].metadata, "title", "Untitled"),
              preview |-> IF relevant_slides[i].content.len > PreviewLen
                          THEN Truncate(relevant_slides[i].content, PreviewLen)
                          ELSE relevant_slides[i].content,
              ellipsis |-> relevant_slides[i].content.len > PreviewLen]])

\* the slides whose content is not that of an earlier slide of the list
RECURSIVE DistinctContents(_, _)
DistinctContents(slides, seen) ==
    IF slides = <<>> THEN <<>>
    ELSE IF Head(slides).content \in seen
    THEN DistinctContents(Tail(slides), seen)
    ELSE <<Head(slides)>>
             \o DistinctContents(Tail(slides), seen \cup {Head(slides).content})

Answered_Dedup(answer, relevant_slides, calls) ==
    [raised |-> FALSE, answer |-> answer,
     relevant_slides |-> DistinctContents(relevant_slides, {}),
     confidence |-> _calculate_confidence(relevant_slides), calls |-> calls]

\* the dict query returns
Answered(answer, relevant_slides, calls) ==
    [raised |-> FALSE, answer |-> answer, relevant_slides |-> relevant_slides,
     confidence |-> _calculate_confidence(relevant_slides), calls |-> calls]

\* step 2 of query with a client: the generated answer, or its exception
Generated(g, relevant_slides) ==
    IF g.raised THEN Raised(g.calls)
    ELSE Answered(g.text, relevant_slides, g.calls)

QueryFound_NoEmptyCheck(found, has_client, question, gen) ==
    IF found.raised THEN Raised(<<>>)
    ELSE IF has_client
    THEN Generated(_generate_response(has_client, question, found.results, gen),
                   found.results)
    ELSE Answered(_generate_simple_response(question, found.results),
                  found.results, <<>>)

QueryFound_AlwaysGenerate(found, has_client, question, gen) ==
    IF found.raised THEN Raised(<<>>)
    ELSE IF found.results = <<>>
    THEN [raised |-> FALSE, answer |-> NoInfoAnswer,
          relevant_slides |-> <<>>, confidence |-> 0, calls |-> <<>>]
    ELSE Generated(_generate_response(has_client, question, found.results, gen),
                   found.results)

\* query after its search: the fixed answer for no results, the generated
\* answer with a client, the templated answer without
QueryFound(found, has_client, question, gen) ==
    IF found.raised THEN Raised(<<>>)
    ELSE IF found.results = <<>>
    THEN [raised |-> FALSE, answer |-> NoInfoAnswer,
          relevant_slides |-> <<>>, confidence |-> 0, calls |-> <<>>]
    ELSE IF has_client
    THEN Generated(_generate_response(has_client, question, found.results, gen),
                   found.results)
    ELSE Answered(_generate_simple_response(question, found.results),
                  found.results, <<>>)

query_NoEmptyCheck(coll_id, entries, handle, has_client, question, n_results, gen) ==
    QueryFound_NoEmptyCheck(search(coll_id, entries, handle, question, n_results),
                            has_client, question, gen)

query_AlwaysGenerate(coll_id, entries, handle, has_client, question, n_results, gen) ==
    QueryFound_AlwaysGenerate(search(coll_id, entries, handle, question, n_results),
                              has_client, question, gen)

\* query, on the collection the engine's handle points to
query(coll_id, entries, handle, has_client, question, n_results, gen) ==
    QueryFound(search(coll_id, entries, handle, question, n_results),
               has_client, question, gen)

LastTurns_All(chat_history) ==
    [i \in 1..Len(chat_history) |->
        [role |-> chat_history[i].role, content |-> chat_history[i].content]]

\* chat_history[-10:], role and content of each turn
LastTurns(chat_history) ==
    LET n == Len(chat_history)
        first == Max(1, n - HistoryWindow + 1)
    IN [i \in 1..(n - first + 1) |->
           [role |-> chat_history[first + i - 1].role,
            content |-> chat_history[first + i - 1].content]]

\* the second half of chat: the model call with the history
ChatRequest(result, message, chat_history) ==
    [system |->
        [i \in 1..Len(result.relevant_slides) |->
            [slide_number |-> MetaGet(result.relevant_slides[i].metadata, "slide_number", 0),
             content |-> Truncate(result.relevant_slides[i].content, ChatContextLen)]],
     messages |-> LastTurns(chat_history)
                    \o <<[role |-> "user", content |-> Text("user", message, <<>>)]>>]

ChatWith_IgnoreFailure(result, has_client, message, chat_history, gen2) ==
    IF ~has_client THEN result
    ELSE IF gen2 = GenFail
    THEN Raised(result.calls \o <<ChatRequest(result, message, chat_history)>>)
    ELSE [result EXCEPT !.raised = FALSE,
                        !.answer = Text("llm", gen2, <<>>),
                        !.calls = @ \o <<ChatRequest(result, message, chat_history)>>]

ChatWith_NoInfoShortcut(result, has_client, message, chat_history, gen2) ==
    IF result.raised THEN result
    ELSE IF ~has_client \/ result.relevant_slides = <<>> THEN result
    ELSE IF gen2 = GenFail
    THEN Raised(result.calls \o <<ChatRequest(result, message, chat_history)>>)
    ELSE [result EXCEPT !.answer = Text("llm", gen2, <<>>),
                        !.calls = @ \o <<ChatRequest(result, message, chat_history)>>]

\* chat after its call of query: the query result without a client (and the
\* exception of query); otherwise one model call with the history, whose reply
\* replaces the answer
ChatWith(result, has_client, message, chat_history, gen2) ==
    IF result.raised THEN result
    ELSE IF ~has_client THEN result
    ELSE IF gen2 = GenFail
    THEN Raised(result.calls \o <<ChatRequest(result, message, chat_history)>>)
    ELSE [result EXCEPT !.answer = Text("llm", gen2, <<>>),
                        !.calls = @ \o <<ChatRequest(result, message, chat_history)>>]

\* the text of the last user turn of the history, or the message
LastUserText(message, chat_history) ==
    IF chat_history = <<>> THEN message
    ELSE LET users == {i \in 1..Len(chat_history) : chat_history[i].role = "user"}
         IN IF users = {} THEN message
            ELSE chat_history[CHOOSE i \in users : \A j \in users : j <= i].content.text

chat_SearchHistory(coll_id, entries, handle, has_client, message, chat_history, gen1, gen2) ==
    ChatWith(query(coll_id, entries, handle, has_client,
                   LastUserText(message, chat_history), ChatTopK, gen1),
             has_client, message, chat_history, gen2)

chat_TopOne(coll_id, entries, handle, has_client, message, chat_history, gen1, gen2) ==
    ChatWith(query(coll_id, entries, handle, has_client, message, 1, gen1),
             has_client, message, chat_history, gen2)

chat(coll_id, entries, handle, has_client, message, chat_history, gen1, gen2) ==
    ChatWith(query(coll_id, entries, handle, has_client, message, ChatTopK, gen1),
             has_client, message, chat_history, gen2)

(***************************************************************************)
(* QueryEngine.generate_example_questions.  The outcome of the model call  *)
(* is a failure or a reply, a sequence of lines; a line is a string with   *)
(* or without surrounding blanks.                                          *)
(***************************************************************************)
SampleQuery == "main topics key points data"
Languages == {"en", "ar"}
ReplyLines == {"", "Q1", " Q2 "}

\* str.strip() on a line of the reply
Strip(line) ==
    CASE line = " Q2 " -> "Q2"
      [] line = " " -> ""
      [] OTHER -> line

\* [q.strip() for q in questions if q.strip()]
RECURSIVE CleanLines(_)
CleanLines(lines) ==
    IF lines = <<>> THEN <<>>
    ELSE IF Strip(Head(lines)) = "" THEN CleanLines(Tail(lines))
    ELSE <<Strip(Head(lines))>> \o CleanLines(Tail(lines))

\* questions[:num_questions]
FirstN(questions, n) == SubSeq(questions, 1, Min(n, Len(questions)))

\* the prompt built from the first 300 characters of each sampled slide
QuestionsRequest(sample_results, num_questions, lang) ==
    [system |-> <<>>,
     messages |-> <<[role |-> "user",
                     content |-> Text("questions_prompt", lang,
                         [i \in 1..Len(sample_results) |->
                             [num_questions |-> num_questions,
                              content |-> Truncate(sample_results[i].content,
                                                   SampleLen)]])]>>]

\* the try block: the reply's non-empty lines, [] when the call raises
QuestionsFrom(request, num_questions, reply) ==
    IF reply.failed
    THEN [raised |-> FALSE, failed |-> TRUE, questions |-> <<>>, calls |-> <<request>>]
    ELSE [raised |-> FALSE, failed |-> FALSE,
          questions |-> FirstN(CleanLines(reply.lines), num_questions),
          calls |-> <<request>>]

NoQuestions(raised) ==
    [raised |-> raised, failed |-> FALSE, questions |-> <<>>, calls |-> <<>>]

QuestionsFound_NoEmptyCheck(found, has_client, num_questions, lang, reply) ==
    IF ~has_client THEN NoQuestions(FALSE)
    ELSE IF found.raised THEN NoQuestions(TRUE)
    ELSE QuestionsFrom(QuestionsRequest(found.results, num_questions, lang),
                       num_questions, reply)

\* generate_example_questions after its search; without a client the search
\* is not made
QuestionsFound(found, has_client, num_questions, lang, reply) ==
    IF ~has_client THEN NoQuestions(FALSE)
    ELSE IF found.raised THEN NoQuestions(TRUE)
    ELSE IF found.results = <<>> THEN NoQuestions(FALSE)
    ELSE QuestionsFrom(QuestionsRequest(found.results, num_questions, lang),
                       num_questions, reply)

generate_example_questions_NoEmptyCheck(coll_id, entries, handle, has_client, num_questions, lang, reply) ==
    QuestionsFound_NoEmptyCheck(search(coll_id, entries, handle, SampleQuery, SampleTopK),
                                has_client, num_questions, lang, reply)

generate_example_questions(coll_id, entries, handle, has_client, num_questions, lang, reply) ==
    QuestionsFound(search(coll_id, entries, handle, SampleQuery, SampleTopK),
                   has_client, num_questions, lang, reply)

(***************************************************************************)
(* Default values of the variables a specification does not use            *)
(***************************************************************************)
SessionIdle ==
    /\ uploaded_file = NoFile
    /\ processed_file = NoProcessedFile
    /\ embeddings_ready = FALSE
    /\ messages = <<>>
    /\ query_engine = NoEngine
    /\ pending_query = Absent
    /\ rerun_requested = FALSE
    /\ shown = {}
    /\ language = "en"
    /\ suggested = [l \in Languages |-> NotCached]
    /\ log = {}

UploadersIdle ==
    /\ uploaders = [p \in Uploaders |-> IdleUploader]
    /\ ids_used = 1

(***************************************************************************)
(* SpecConf: _calculate_confidence applied to synthetic result lists       *)
(***************************************************************************)
DistVals == {0, 1, 3, 4, 5}
ResultLists ==
    UNION {[1..n -> [distance : DistVals]] : n \in 1..MaxLen}

InitConf ==
    /\ collection_id = 1
    /\ collection = {}
    /\ client = FALSE
    /\ SessionIdle
    /\ UploadersIdle
    /\ \E l \in ResultLists : res = [op |-> "input", results |-> l]

CalcConfidence ==
    /\ res.op = "input"
    /\ res' = [op |-> "_calculate_confidence", results |-> res.results,
               out |-> _calculate_confidence(res.results)]
    /\ UNCHANGED <<svcVars, sessVars>>

NextConf == CalcConfidence

SpecConf == InitConf /\ [][NextConf]_vars

TotalDistance(results) ==
    SumOf([i \in 1..Len(results) |-> GetDistance(results[i])], Len(results))

\* average distance of a <= average distance of b
AvgLeq(a, b) == TotalDistance(a) * Len(b) <= TotalDistance(b) * Len(a)

\* C7: for every non-empty result list the confidence is in [0,1], and a list
\* whose average distance is no smaller has a confidence that is no greater.
C7_ConfidenceBoundedMonotone ==
    res.op = "_calculate_confidence" =>
        /\ res.out \in 0..100
        /\ \A other \in ResultLists :
               /\ AvgLeq(res.results, other)
                      => _calculate_confidence(other) <= res.out
               /\ AvgLeq(other, res.results)
                      => _calculate_confidence(other) >= res.out

\* a list whose average distance exceeds 2.0 has been scored
C7_Witness ==
    /\ res.op = "_calculate_confidence"
    /\ Len(res.results) = 3
    /\ TotalDistance(res.results) > 2 * DistUnit * 3
    /\ res.out = 0

(***************************************************************************)
(* SpecStore: the EmbeddingsService operations on one service instance     *)
(***************************************************************************)
StoreIds == {SlideId("A.pptx", n) : n \in 1..NumIds}

\* the (id, content, metadata) triples offered to the store
SlideInputs ==
    {[id |-> i, content |-> c.content, metadata |-> c.metadata] :
        i \in StoreIds,
        c \in {[content |-> [txt |-> "t1", len |-> 120],
                 metadata |-> [filename |-> "A.pptx", slide_number |-> 1,
                               title |-> NoneValue]],
                [content |-> [txt |-> "t2", len |-> 650],
                 metadata |-> [filename |-> "B.pptx", slide_number |-> 2,
                               title |-> "Intro"]]}}

Batches == UNION {[1..n -> SlideInputs] : n \in 0..MaxBatch}

InitStore ==
    /\ collection_id = 1
    /\ collection = {}
    /\ client = FALSE
    /\ SessionIdle
    /\ UploadersIdle
    /\ res = [op |-> "init"]

\* calls are synchronous: one is made when the previous one has returned
AddSlide ==
    \E s \in SlideInputs :
        /\ res.op = "init"
        /\ collection' = add_slide(collection, s.id, s.content, s.metadata)
        /\ res' = [op |-> "add_slide", slides |-> <<s>>, raised |-> FALSE,
                   before |-> collection]
        /\ UNCHANGED <<collection_id, client, sessVars>>

AddSlidesBatch ==
    \E slides \in Batches :
        LET r == add_slides_batch(collection, slides)
        IN /\ res.op = "init"
           /\ collection' = r.entries
           /\ res' = [op |-> "add_slides_batch", slides |-> slides,
                      raised |-> r.raised, before |-> collection]
           /\ UNCHANGED <<collection_id, client, sessVars>>

ClearCollection ==
    /\ res.op = "init"
    /\ collection_id < MaxCollections
    /\ LET r == clear_collection(collection_id)
       IN /\ collection_id' = r.coll_id
          /\ collection' = r.entries
    /\ res' = [op |-> "clear_collection"]
    /\ UNCHANGED <<client, sessVars>>

\* the caller takes the result of the call
StoreReturn ==
    /\ res.op \in {"add_slide", "add_slides_batch", "clear_collection"}
    /\ res' = [op |-> "init"]
    /\ UNCHANGED <<svcVars, sessVars>>

NextStore == AddSlide \/ AddSlidesBatch \/ ClearCollection \/ StoreReturn

SpecStore == InitStore /\ [][NextStore]_vars

Ingested == res.op \in {"add_slide", "add_slides_batch"} /\ ~res.raised

\* the slide of the last ingestion re-ingests an id with different content
ReIngests(s) == \E e \in res.before : e.id = s.id /\ e.content # s.content

\* C9: after an id is ingested again with different content (add_slide or
\* add_slides_batch) the store holds exactly one entry of that id, with the
\* content and the (cleaned) metadata of the later ingestion, and the entries
\* of the ids that were not ingested are those of before.
C9_UpsertReplaces ==
    Ingested =>
        /\ \A i \in 1..Len(res.slides) :
               ReIngests(res.slides[i]) =>
                   {e \in collection : e.id = res.slides[i].id}
                     = {[id |-> res.slides[i].id,
                         content |-> res.slides[i].content,
                         metadata |-> CleanMetadata(res.slides[i].metadata)]}
        /\ (\E i \in 1..Len(res.slides) : ReIngests(res.slides[i])) =>
               LET ingested == {res.slides[i].id : i \in 1..Len(res.slides)}
               IN {e \in collection : e.id \notin ingested}
                    = {e \in res.before : e.id \notin ingested}

\* a batch re-ingested an id with different content while another id was stored
C9_Witness ==
    /\ res.op = "add_slides_batch"
    /\ ~res.raised
    /\ Len(res.slides) = 1
    /\ ReIngests(res.slides[1])
    /\ \E e \in res.before : e.id # res.slides[1].id
    /\ Cardinality(collection) = 2

(***************************************************************************)
(* SpecEngine: QueryEngine.query and QueryEngine.chat on a populated store *)
(***************************************************************************)
\* the stores add_slides_batch builds from a presentation of k slides
StoreOf(contents) ==
    {[id |-> SlideId("A.pptx", i), content |-> contents[i],
      metadata |-> [filename |-> "A.pptx", slide_number |-> i, title |-> "Intro"]] :
        i \in 1..Len(contents)}

EngineStores ==
    {StoreOf(f) : f \in UNION {[1..k -> Contents] : k \in 0..MaxStore}}

UserTurn(text) == [role |-> "user", content |-> Text("user", text, <<>>)]
AssistantTurn(text) == [role |-> "assistant", content |-> Text("llm", text, <<>>)]

\* a history longer than the window: its two oldest turns are about "q2"
LongHistory ==
    [i \in 1..(HistoryWindow + 2) |->
        IF i % 2 = 1 THEN UserTurn(IF i <= 2 THEN "q2" ELSE "q1")
        ELSE AssistantTurn(IF i <= 2 THEN "r2" ELSE "r1")]

Histories ==
    {<<>>,
     <<UserTurn("q1"), AssistantTurn("r1")>>,
     <<UserTurn("q2"), AssistantTurn("r1")>>,
     LongHistory}

TopKs == (1..MaxK) \cup {ChatTopK}

InitEngine ==
    /\ collection_id = 1
    /\ collection \in EngineStores
    /\ client \in BOOLEAN
    /\ SessionIdle
    /\ UploadersIdle
    /\ res = [op |-> "init"]

Query ==
    \E question \in Questions, n_results \in TopKs, gen \in GenOutcomes :
        /\ res.op = "init"
        /\ res' = [op |-> "query", question |-> question, n_results |-> n_results,
                   history |-> <<>>, gen1 |-> gen, gen2 |-> gen,
                   out |-> query(collection_id, collection, collection_id, client,
                                 question, n_results, gen)]
        /\ UNCHANGED <<svcVars, sessVars>>

\* the outcomes of chat's own model call: its reply differs from the reply
\* to the prompt of query
ChatOutcomes == {GenFail, "r2"}

Chat ==
    \E message \in Questions, chat_history \in Histories,
       gen1 \in GenOutcomes, gen2 \in ChatOutcomes :
        /\ res.op = "init"
        /\ res' = [op |-> "chat", question |-> message, n_results |-> ChatTopK,
                   history |-> chat_history, gen1 |-> gen1, gen2 |-> gen2,
                   out |-> chat(collection_id, collection, collection_id, client,
                                message, chat_history, gen1, gen2)]
        /\ UNCHANGED <<svcVars, sessVars>>

\* the replies of the model to the example-questions prompt
FailedReply == [failed |-> TRUE, lines |-> <<>>]
Replies ==
    {[failed |-> FALSE, lines |-> l] :
        l \in UNION {[1..n -> ReplyLines] : n \in 0..MaxReplyLines}}
NumQuestions == {1, 2, SuggestedCount}

GenerateExampleQuestions ==
    \E num_questions \in NumQuestions, lang \in Languages,
       reply \in {FailedReply} \cup Replies :
        /\ res.op = "init"
        /\ res' = [op |-> "generate_example_questions", question |-> SampleQuery,
                   n_results |-> SampleTopK, num_questions |-> num_questions,
                   lang |-> lang, reply |-> reply,
                   out |-> generate_example_questions(collection_id, collection,
                               collection_id, client, num_questions, lang, reply)]
        /\ UNCHANGED <<svcVars, sessVars>>

\* the caller takes the result; the engine keeps no state of the call
Return ==
    /\ res.op \in {"query", "chat", "generate_example_questions"}
    /\ res' = [op |-> "init"]
    /\ UNCHANGED <<svcVars, sessVars>>

NextEngine == Query \/ Chat \/ GenerateExampleQuestions \/ Return

SpecEngine == InitEngine /\ [][NextEngine]_vars

\* what the store search returns for the last call's question
Retrieved == search(collection_id, collection, collection_id,
                    res.question, res.n_results).results

\* C1: when the search returns nothing, query returns the fixed answer, no
\* slides and confidence 0.0 and calls the generation model zero times, with
\* or without a credential.
C1_EmptySearchSkipsGeneration ==
    (res.op = "query" /\ Retrieved = <<>>) =>
        /\ ~res.out.raised
        /\ res.out.answer = NoInfoAnswer
        /\ res.out.relevant_slides = <<>>
        /\ res.out.confidence = 0
        /\ res.out.calls = <<>>

\* query ran on an empty store with a credential configured
C1_Witness ==
    /\ res.op = "query"
    /\ client
    /\ collection = {}
    /\ res.gen1 = GenFail
    /\ res.out.answer = NoInfoAnswer

Abs(x) == IF x < 0 THEN -x ELSE x

\* C2 (as claimed): with a credential, a non-empty retrieval and a failing
\* generation call, query does not raise and returns the templated fallback
\* answer with the retrieved slides and their confidence.
C2_GenerationFailureFallsBack ==
    (res.op = "query" /\ client /\ Retrieved # <<>> /\ res.gen1 = GenFail) =>
        /\ ~res.out.raised
        /\ res.out.answer = _generate_simple_response(res.question, Retrieved)
        /\ res.out.relevant_slides = Retrieved
        /\ res.out.confidence = _calculate_confidence(Retrieved)

\* C3: without a credential, query and chat with a non-empty retrieval return
\* the templated fallback answer with the retrieved slides and confidence,
\* make no generation call and do not raise.
C3_NoCredentialFallsBack ==
    (res.op \in {"query", "chat"} /\ ~client /\ Retrieved # <<>>) =>
        /\ ~res.out.raised
        /\ res.out.answer = _generate_simple_response(res.question, Retrieved)
        /\ res.out.relevant_slides = Retrieved
        /\ res.out.confidence = _calculate_confidence(Retrieved)
        /\ res.out.calls = <<>>

\* chat ran without a credential on a store of two slides
C3_Witness ==
    /\ res.op = "chat"
    /\ ~client
    /\ Len(res.out.relevant_slides) = 2
    /\ res.out.answer.kind = "simple"
    /\ Len(res.out.answer.items) = 2

\* C5: in fallback mode, on the same store, chat with the same message
\* returns the same answer, slides and confidence whatever the history.
C5_FallbackIgnoresHistory ==
    (res.op = "chat" /\ ~client) =>
        \A other \in Histories, g1 \in GenOutcomes, g2 \in GenOutcomes :
            LET r == chat(collection_id, collection, collection_id, client,
                          res.question, other, g1, g2)
            IN /\ r.raised = res.out.raised
               /\ r.answer = res.out.answer
               /\ r.relevant_slides = res.out.relevant_slides
               /\ r.confidence = res.out.confidence

\* a fallback chat was given a history whose turns are about another question
C5_Witness ==
    /\ res.op = "chat"
    /\ ~client
    /\ res.question = "q1"
    /\ res.history = LongHistory
    /\ Len(res.out.relevant_slides) >= 2
    /\ res.out.relevant_slides[1].distance < res.out.relevant_slides[2].distance

\* C6: whenever chat returns, its relevant_slides and confidence are those
\* query(message, 5) returns on the same store, for every history and with or
\* without a credential.
C6_ChatKeepsQueryRetrieval ==
    (res.op = "chat" /\ ~res.out.raised) =>
        LET q == query(collection_id, collection, collection_id, client,
                       res.question, ChatTopK, res.gen1)
        IN /\ ~q.raised
           /\ res.out.relevant_slides = q.relevant_slides
           /\ res.out.confidence = q.confidence
           /\ res.out.relevant_slides = Retrieved

\* chat with a credential and a history answered from a store of more than
\* five slides
C6_Witness ==
    /\ res.op = "chat"
    /\ client
    /\ res.history # <<>>
    /\ Cardinality(collection) > ChatTopK
    /\ res.out.answer.kind = "llm"
    /\ Len(res.out.relevant_slides) = ChatTopK

\* C8: for a non-empty retrieval the confidence query returns is within half
\* a hundredth of clamp(1 - avgDistance/2, 0, 1) (its rounding), avgDistance being
\* the mean distance of all returned results; average 0 gives 1.0 and an
\* average of 2 or more gives 0.0.
C8_ConfidenceFormula ==
    (res.op = "query" /\ ~res.out.raised /\ res.out.relevant_slides # <<>>) =>
        LET slides == res.out.relevant_slides
            n == Len(slides)
            total == SumOf([i \in 1..n |-> slides[i].distance], n)
            den == 2 * DistUnit * n
            num == IF den - total < 0 THEN 0
                   ELSE IF den - total > den THEN den ELSE den - total
        IN /\ slides = Retrieved
           /\ 2 * Abs(res.out.confidence * den - 100 * num) <= den
           /\ total = 0 => res.out.confidence = 100
           /\ total >= 2 * DistUnit * n => res.out.confidence = 0

\* a confidence that is not a whole number of hundredths before rounding
C8_Witness ==
    /\ res.op = "query"
    /\ ~res.out.raised
    /\ Len(res.out.relevant_slides) = 3
    /\ (100 * SumOf([i \in 1..3 |-> res.out.relevant_slides[i].distance], 3))
            % (2 * DistUnit * 3) \notin {0, DistUnit * 3}
    /\ res.out.confidence = 42

\* C12: generate_example_questions returns an empty list and makes no
\* generation call when there is no credential or the search returns nothing;
\* otherwise it makes one call and returns at most num_questions lines, each
\* non-empty and each the stripped text of a line of the reply, in the
\* reply's order (none when the call fails).
C12_ExampleQuestions ==
    res.op = "generate_example_questions" =>
        /\ ~res.out.raised
        /\ (~client \/ Retrieved = <<>>) =>
               (res.out.questions = <<>> /\ res.out.calls = <<>>)
        /\ (client /\ Retrieved # <<>>) =>
               /\ Len(res.out.calls) = 1
               /\ Len(res.out.questions) <= res.num_questions
               /\ res.reply.failed => res.out.questions = <<>>
               /\ ~res.reply.failed =>
                      \E f \in [1..Len(res.out.questions) -> 1..Len(res.reply.lines)] :
                          /\ \A i \in 1..Len(res.out.questions) :
                                 /\ res.out.questions[i] # ""
                                 /\ res.out.questions[i] = Strip(res.reply.lines[f[i]])
                          /\ \A i, j \in 1..Len(res.out.questions) :
                                 i < j => f[i] < f[j]

\* a reply of two questions, the first with blanks around it, cut to one
C12_Witness ==
    /\ res.op = "generate_example_questions"
    /\ client
    /\ collection # {}
    /\ res.num_questions = 1
    /\ res.reply.lines = <<" Q2 ", "Q1">>
    /\ res.out.questions = <<"Q2">>

\* chat reached its own model call: it has a client and query did not raise
ChatCalled ==
    res.op = "chat" /\ client /\ (Retrieved = <<>> \/ res.gen1 # GenFail)

\* C16: the turns chat sends to the model are the last min(10, len(history))
\* turns of the history, in order, role and content unchanged, followed by one
\* user turn holding the new message.
C16_ChatSendsLastTenTurns ==
    ChatCalled =>
        LET sent == res.out.calls[Len(res.out.calls)].messages
            h == res.history
            k == IF Len(h) < 10 THEN Len(h) ELSE 10
        IN /\ Len(sent) = k + 1
           /\ \A i \in 1..k :
                  /\ sent[i].role = h[Len(h) - k + i].role
                  /\ sent[i].content = h[Len(h) - k + i].content
           /\ sent[k + 1] = [role |-> "user",
                             content |-> Text("user", res.question, <<>>)]

\* chat was given a history of more than ten turns
C16_Witness ==
    /\ ChatCalled
    /\ Len(res.history) > 10
    /\ res.out.answer.kind = "llm"
    /\ Len(res.out.calls[Len(res.out.calls)].messages) = 11
    /\ res.out.calls[Len(res.out.calls)].messages[1] # res.history[1]

\* the number of characters of a record's preview as the answer shows it
ShownPreviewLen(item) ==
    item.preview.len + (IF item.ellipsis THEN EllipsisLen ELSE 0)

\* C19 (as claimed): the fallback answer lists every retrieved record once,
\* in retrieval order, with its number and title, and the preview it shows of
\* each record is at most 300 characters long.
C19_FallbackListsRecords ==
    (res.op \in {"query", "chat"} /\ ~client /\ Retrieved # <<>>) =>
        LET items == res.out.answer.items
        IN /\ Len(items) = Len(Retrieved)
           /\ \A i \in 1..Len(items) :
                  /\ items[i].slide_number = Retrieved[i].metadata.slide_number
                  /\ items[i].title = Retrieved[i].metadata.title
                  /\ items[i].preview.txt = Retrieved[i].content.txt
                  /\ ShownPreviewLen(items[i]) <= 300

\* the section of the context block the prompt of query holds for a slide
SectionOf(slide) ==
    [slide_number |-> slide.metadata.slide_number,
     filename |-> slide.metadata.filename,
     content |-> slide.content]

\* C22: for a non-empty retrieval the relevant_slides query returns are the
\* list the store search returned, element by element in the same order, also
\* when two results have the same content; with a credential the prompt sent
\* to the model holds one section per result, in that order.
C22_QueryKeepsRetrieval ==
    (res.op = "query" /\ Retrieved # <<>>) =>
        /\ ~res.out.raised =>
               /\ Len(res.out.relevant_slides) = Len(Retrieved)
               /\ \A i \in 1..Len(Retrieved) : res.out.relevant_slides[i] = Retrieved[i]
        /\ client =>
               /\ Len(res.out.calls) = 1
               /\ LET sections == res.out.calls[1].messages[1].content.items
                  IN /\ Len(sections) = Len(Retrieved)
                     /\ \A i \in 1..Len(Retrieved) : sections[i] = SectionOf(Retrieved[i])

\* query answered from a retrieval whose first two results have the same
\* content and the same distance
C22_Witness ==
    /\ res.op = "query"
    /\ client
    /\ ~res.out.raised
    /\ Len(res.out.relevant_slides) = ChatTopK
    /\ res.out.relevant_slides[1].content = res.out.relevant_slides[2].content
    /\ res.out.relevant_slides[1].id # res.out.relevant_slides[2].id
    /\ Len(res.out.calls[1].messages[1].content.items) = ChatTopK

\* the request is the one _generate_response sends: no system prompt, one
\* user turn holding the prompt
IsQueryRequest(request) ==
    /\ request.system = <<>>
    /\ Len(request.messages) = 1
    /\ request.messages[1].content.kind = "prompt"

\* the request is the one chat sends for the message: its last turn is the
\* user's message
IsChatRequest(request, message) ==
    request.messages[Len(request.messages)] =
        [role |-> "user", content |-> Text("user", message, <<>>)]

\* C26: with a credential and a non-empty retrieval chat calls the model
\* twice, first with the prompt of query, whose reply is not part of what
\* chat returns, then with the history; when the first call fails chat raises
\* and the second call is not made.
C26_ChatCallsModelTwice ==
    (res.op = "chat" /\ client /\ Retrieved # <<>>) =>
        /\ res.gen1 = GenFail =>
               /\ res.out.raised
               /\ Len(res.out.calls) = 1
               /\ IsQueryRequest(res.out.calls[1])
        /\ res.gen1 # GenFail =>
               /\ Len(res.out.calls) = 2
               /\ IsQueryRequest(res.out.calls[1])
               /\ IsChatRequest(res.out.calls[2], res.question)
               /\ res.out.raised = (res.gen2 = GenFail)
               /\ res.gen2 # GenFail =>
                      /\ res.out.answer = Text("llm", res.gen2, <<>>)
                      /\ res.out.answer # Text("llm", res.gen1, <<>>)

\* the first call failed in a chat with a history, whose own call would have
\* succeeded
C26_Witness ==
    /\ res.op = "chat"
    /\ client
    /\ Retrieved # <<>>
    /\ res.history # <<>>
    /\ res.gen1 = GenFail
    /\ res.gen2 # GenFail
    /\ res.out.raised
    /\ Len(res.out.calls) = 1

\* C27: with a credential and an empty search result chat makes exactly one
\* model call, the one with the history, with no slide in its system prompt,
\* and returns the model's reply with no slides and confidence 0.0; chat
\* returns the fixed no-relevant-information answer only without a credential.
C27_ChatAnswersWithoutSlides ==
    /\ (res.op = "chat" /\ client /\ Retrieved = <<>>) =>
           /\ Len(res.out.calls) = 1
           /\ IsChatRequest(res.out.calls[1], res.question)
           /\ res.out.calls[1].system = <<>>
           /\ res.out.raised = (res.gen2 = GenFail)
           /\ res.gen2 # GenFail =>
                  /\ res.out.answer = Text("llm", res.gen2, <<>>)
                  /\ res.out.relevant_slides = <<>>
                  /\ res.out.confidence = 0
    /\ (res.op = "chat" /\ ~res.out.raised /\ res.out.answer = NoInfoAnswer) =>
           (~client /\ Retrieved = <<>>)

\* chat on an empty store with a credential and a history: the model's reply
C27_Witness ==
    /\ res.op = "chat"
    /\ client
    /\ collection = {}
    /\ res.history # <<>>
    /\ res.gen1 = GenFail
    /\ res.out.answer = Text("llm", "r2", <<>>)
    /\ res.out.relevant_slides = <<>>
    /\ res.out.confidence = 0

(***************************************************************************)
(* TableData.to_markdown.  A string is the sequence of its pieces: the     *)
(* text of a cell (nothing for an empty cell) and the separators the code  *)
(* writes; the returned text is the sequence of its lines.                 *)
(***************************************************************************)
CellTexts == {"x", ""}

\* the pieces of the string s
Pieces(cell) == IF cell = "" THEN <<>> ELSE <<cell>>

\* " | ".join(cells)
RECURSIVE JoinCells(_)
JoinCells(cells) ==
    IF cells = <<>> THEN <<>>
    ELSE IF Len(cells) = 1 THEN Pieces(cells[1])
    ELSE Pieces(cells[1]) \o <<" | ">> \o JoinCells(Tail(cells))

\* "| " + " | ".join(cells) + " |"
MarkdownLine(cells) == <<"| ">> \o JoinCells(cells) \o <<" |">>

\* [""] * n, the empty list for n <= 0
Blanks(n) == [i \in 1..Max(0, n) |-> ""]

\* row + [""] * (len(headers) - len(row))
PaddedRow(row, headers) == row \o Blanks(Len(headers) - Len(row))

\* padded_row[:len(headers)]
CutRow(padded_row, headers) ==
    SubSeq(padded_row, 1, Min(Len(headers), Len(padded_row)))

MarkdownOf_NoPadding(headers, data_rows) ==
    <<MarkdownLine(headers), MarkdownLine([i \in 1..Len(headers) |-> "---"])>>
        \o [r \in 1..Len(data_rows) |-> MarkdownLine(CutRow(data_rows[r], headers))]

\* the header line, the rule line and one line per data row
MarkdownOf(headers, data_rows) ==
    <<MarkdownLine(headers), MarkdownLine([i \in 1..Len(headers) |-> "---"])>>
        \o [r \in 1..Len(data_rows) |->
               MarkdownLine(CutRow(PaddedRow(data_rows[r], headers), headers))]

\* self.headers if self.headers else self.rows[0]
HeadersOf(table) == IF table.headers # <<>> THEN table.headers ELSE table.rows[1]

\* self.rows[1:] if not self.headers else self.rows
DataRowsOf(table) == IF table.headers = <<>> THEN Tail(table.rows) ELSE table.rows

to_markdown(table) ==
    IF table.rows = <<>> THEN <<>>
    ELSE MarkdownOf(HeadersOf(table), DataRowsOf(table))

(***************************************************************************)
(* SpecTable: to_markdown applied to tables whose rows differ in length    *)
(***************************************************************************)
HeaderCells == <<"A", "B", "C", "D", "E">>
TableHeaders == {SubSeq(HeaderCells, 1, n) : n \in 0..MaxCols}
TableRows == UNION {[1..n -> CellTexts] : n \in 0..MaxCols}
Tables ==
    {[rows |-> r, headers |-> h] :
        r \in UNION {[1..n -> TableRows] : n \in 0..MaxRows}, h \in TableHeaders}

\* PPTXProcessor._extract_table: the rows of the table shape, the first of
\* them also as the headers
_extract_table(shape_rows) ==
    [rows |-> shape_rows,
     headers |-> IF shape_rows # <<>> THEN shape_rows[1] ELSE <<>>]

\* the table shapes of a slide: grids of at least one row and one column
TableShapes ==
    UNION {[1..r -> [1..c -> CellTexts]] : r \in 1..MaxRows, c \in 1..MaxCols}

ExtractedTables == {_extract_table(g) : g \in TableShapes}

InitTable ==
    /\ collection_id = 1
    /\ collection = {}
    /\ client = FALSE
    /\ SessionIdle
    /\ UploadersIdle
    /\ \E t \in Tables \cup ExtractedTables : res = [op |-> "input", table |-> t]

ToMarkdown ==
    /\ res.op = "input"
    /\ res' = [op |-> "to_markdown", table |-> res.table, out |-> to_markdown(res.table)]
    /\ UNCHANGED <<svcVars, sessVars>>

NextTable == ToMarkdown

SpecTable == InitTable /\ [][NextTable]_vars

\* the cells of a rendered line, read back from its pieces
RECURSIVE CellsOf(_, _)
CellsOf(line, cell) ==
    IF line = <<>> THEN <<cell>>
    ELSE IF Head(line) = " | " THEN <<cell>> \o CellsOf(Tail(line), "")
    ELSE CellsOf(Tail(line), Head(line))

\* the cells between the opening "| " and the closing " |" of a line
RenderedCells(line) == CellsOf(SubSeq(line, 2, Len(line) - 1), "")

Rendered == res.op = "to_markdown" /\ res.table.rows # <<>>

\* C17: a data row with fewer cells than the header is rendered, without an
\* error, as its own cells followed by empty cells up to the header length.
C17_ShortRowsPadded ==
    Rendered =>
        LET headers == HeadersOf(res.table)
            data_rows == DataRowsOf(res.table)
        IN /\ Len(res.out) = 2 + Len(data_rows)
           /\ \A r \in 1..Len(data_rows) :
                  (Len(data_rows[r]) < Len(headers)) =>
                      LET cells == RenderedCells(res.out[2 + r])
                      IN /\ Len(cells) = Len(headers)
                         /\ \A i \in 1..Len(headers) :
                                cells[i] = IF i <= Len(data_rows[r])
                                           THEN data_rows[r][i] ELSE ""

\* headers [A, B, C] and the row [x]
C17_Witness ==
    /\ Rendered
    /\ res.table.headers = <<"A", "B", "C">>
    /\ res.table.rows = <<<<"x">>>>
    /\ res.out[3] = <<"| ", "x", " | ", " | ", " |">>

\* C18 (as claimed): no cell is dropped: every cell of a data row, also of a
\* row with more cells than the header, is a cell of the row's rendered line.
C18_NoCellDropped ==
    Rendered =>
        LET data_rows == DataRowsOf(res.table)
        IN \A r \in 1..Len(data_rows) :
               LET cells == RenderedCells(res.out[2 + r])
               IN /\ Len(cells) >= Len(data_rows[r])
                  /\ \A i \in 1..Len(data_rows[r]) : cells[i] = data_rows[r][i]

\* the table is one _extract_table returns
Extracted == res.table \in ExtractedTables

\* C30 (as claimed): for a table _extract_table produced, to_markdown renders
\* every source row once: the first row as the header line, followed by the
\* rule line and one line for each of the other rows, in order.
C30_ExtractedRowsRenderedOnce ==
    (Rendered /\ Extracted) =>
        /\ Len(res.out) = Len(res.table.rows) + 1
        /\ res.out[1] = MarkdownLine(res.table.rows[1])
        /\ \A r \in 2..Len(res.table.rows) :
               res.out[r + 1] = MarkdownLine(res.table.rows[r])

(***************************************************************************)
(* The Streamlit session.  One run of the script (main) is a function of   *)
(* the session state, the database, the file held by the uploader widget   *)
(* and the one widget event that started the run; it is written on the     *)
(* record S of all of them.                                                *)
(***************************************************************************)
\* slide i of an uploaded deck, as PPTXProcessor extracts it: its title and
\* the text create_slide_embedding_content derives from it
DeckSlide(i) ==
    [title |-> IF i = 1 THEN "Intro" ELSE "",
     text |-> IF i % 2 = 1 THEN [txt |-> "t1", len |-> 120]
              ELSE [txt |-> "t2", len |-> 650]]

\* an empty presentation and one of MaxSlides slides
Bodies == {[i \in 1..n |-> DeckSlide(i)] : n \in {0, MaxSlides}}
Files == {[name |-> n, slides |-> b] : n \in Filenames, b \in Bodies}

\* how processing an upload ends: extraction raises, the upsert raises, or neither
UploadOutcomes == {"ok", "extract_fails", "upsert_fails"}

\* f"{t('slide')} {slide.slide_number}"
DefaultTitle(n) ==
    CASE n = 1 -> "Slide 1" [] n = 2 -> "Slide 2" [] n = 3 -> "Slide 3"
      [] OTHER -> "Slide n"

NoEvent == [kind |-> "none", text |-> Absent]
Prompts == {"q1"}
QuickQueries == {"summarize"}

Show(S, what) == [S EXCEPT !.shown = @ \cup {what}]

\* a record of what the run did
Event(what, arg) == [what |-> what, arg |-> arg]
Log(S, events) == [S EXCEPT !.log = @ \cup events]

\* `return presentation` of render_upload_section
Returning(S, presentation) == [S EXCEPT !.presentation = presentation]

\* PPTXProcessor.process_uploaded_file
process_uploaded_file(file) ==
    [filename |-> file.name, total_slides |-> Len(file.slides), slides |-> file.slides]

\* the slides_to_embed list of render_upload_section
slides_to_embed(result) ==
    [i \in 1..Len(result.slides) |->
        [id |-> SlideId(result.filename, i),
         content |-> result.slides[i].text,
         metadata |-> [filename |-> result.filename,
                       slide_number |-> i,
                       title |-> IF result.slides[i].title # ""
                                 THEN result.slides[i].title
                                 ELSE DefaultTitle(i)]]]

\* the suggested_questions_* keys of the session
CachedLanguages(S) == {l \in Languages : S.suggested[l].cached}

Recorded_KeepCache(C, file, result, batch, outcome) ==
    IF batch.raised \/ (outcome = "upsert_fails" /\ result.slides # <<>>)
    THEN Log(Show(C, "upload_error"), {Event("raised", "upsert")})
    ELSE Returning(Show([C EXCEPT !.entries = batch.entries,
                                  !.processed_file = [name |-> file.name, data |-> result],
                                  !.embeddings_ready = TRUE],
                        "upload_success"),
                   result)

\* the end of the try block: the upsert raised, or the file is recorded, the
\* cached question lists of all languages are deleted and the result returned
Recorded(C, file, result, batch, outcome) ==
    IF batch.raised \/ (outcome = "upsert_fails" /\ result.slides # <<>>)
    THEN Log(Show(C, "upload_error"), {Event("raised", "upsert")})
    ELSE Returning(Log(Show([C EXCEPT !.entries = batch.entries,
                                      !.processed_file = [name |-> file.name, data |-> result],
                                      !.embeddings_ready = TRUE,
                                      !.suggested = [l \in Languages |-> NotCached]],
                            "upload_success"),
                       {Event("deleted", l) : l \in CachedLanguages(C)}),
                   result)

\* the try block after extraction; C is the session after clear_collection
Ingest(C, file, result, outcome) ==
    Recorded(C, file, result,
             add_slides_batch(C.entries, slides_to_embed(result)), outcome)

\* the session after embeddings.clear_collection()
Cleared(S, cleared) ==
    [S EXCEPT !.collection_id = cleared.coll_id, !.entries = cleared.entries]

\* process_uploaded_file raised: the except branch
ExtractionFailed(S) == Log(Show(S, "upload_error"), {Event("raised", "extract")})

\* the file was already processed: the cached presentation is returned
Loaded(S) == Returning(Show(S, "upload_loaded"), S.processed_file.data)

render_upload_section_NoClear(S, file, outcome) ==
    IF file.name = Absent THEN S
    ELSE IF S.processed_file.name = file.name THEN Loaded(S)
    ELSE IF outcome = "extract_fails" THEN ExtractionFailed(S)
    ELSE Ingest(S, file, process_uploaded_file(file), outcome)

render_upload_section_ClearFirst(S, file, outcome) ==
    IF file.name = Absent THEN S
    ELSE IF S.processed_file.name = file.name THEN Loaded(S)
    ELSE IF outcome = "extract_fails"
    THEN ExtractionFailed(Cleared(S, clear_collection(S.collection_id)))
    ELSE Ingest(Cleared(S, clear_collection(S.collection_id)), file,
                process_uploaded_file(file), outcome)

render_upload_section_CompareContent(S, file, outcome) ==
    IF file.name = Absent THEN S
    ELSE IF /\ S.processed_file.name = file.name
            /\ S.processed_file.data.slides = file.slides
    THEN Loaded(S)
    ELSE IF outcome = "extract_fails" THEN ExtractionFailed(S)
    ELSE Ingest(Cleared(S, clear_collection(S.collection_id)), file,
                process_uploaded_file(file), outcome)

\* render_upload_section: nothing without a file; the cached presentation for
\* the name already processed; otherwise extract, clear the collection,
\* upsert the slides and record the file in the session, any exception being
\* shown as an error
render_upload_section(S, file, outcome) ==
    IF file.name = Absent THEN S
    ELSE IF S.processed_file.name = file.name THEN Loaded(S)
    ELSE IF outcome = "extract_fails" THEN ExtractionFailed(S)
    ELSE Ingest(Cleared(S, clear_collection(S.collection_id)), file,
                process_uploaded_file(file), outcome)

\* what render_file_info displays of a presentation
FileOverview(presentation) ==
    IF presentation.total_slides = 0 THEN "file_overview_no_slides"
    ELSE "file_overview_slides"

\* main: `if presentation: render_file_info(presentation)`
render_file_info(S) ==
    IF S.presentation.filename = Absent THEN S
    ELSE Show(S, FileOverview(S.presentation))

clear_chat_DropLast(S) ==
    Log([S EXCEPT !.messages = SubSeq(@, 1, Len(@) - 1)],
        {Event("cleared", IF S.messages # <<>> THEN "turns" ELSE "nothing")})

\* clear_chat
clear_chat(S) ==
    Log([S EXCEPT !.messages = <<>>],
        {Event("cleared", IF S.messages # <<>> THEN "turns" ELSE "nothing")})

\* render_chat_controls: the clear button clears the chat and reruns
render_chat_controls(S, ev) ==
    IF ev.kind = "clear_chat" THEN [clear_chat(S) EXCEPT !.rerun = TRUE] ELSE S

\* add_user_query
add_user_query(S, text) == [S EXCEPT !.pending_query = text, !.rerun = TRUE]

\* render_quick_actions
render_quick_actions(S, ev) ==
    IF ev.kind = "quick_action" THEN add_user_query(S, ev.text) ELSE S

ErrorTurn == [role |-> "assistant", content |-> Text("error", "chat_error", <<>>)]

\* the engine of the session: created on first use, bound to the collection
\* current at that time
EngineOf(S) ==
    IF S.query_engine.created THEN S.query_engine
    ELSE [created |-> TRUE, handle |-> S.collection_id]

\* the prompt of the run: the typed one, else the pending query
PromptOf(S, ev) ==
    IF ev.kind = "chat_input" THEN ev.text ELSE S.pending_query

\* the end of a chat turn: the assistant's turn, or the error turn
TurnDone_Reraise(S1, prompt, result) ==
    IF result.raised
    THEN Log([S1 EXCEPT !.messages = @ \o <<UserTurn(prompt)>>],
             {Event("raised", "chat")})
    ELSE Show([S1 EXCEPT !.messages = @ \o
                  <<UserTurn(prompt),
                    [role |-> "assistant", content |-> result.answer,
                     slides |-> result.relevant_slides]>>],
              "chat_answer")

TurnDone_Restart(S1, prompt, result) ==
    IF result.raised
    THEN Log(Show([S1 EXCEPT !.messages = <<UserTurn(prompt), ErrorTurn>>],
                  "chat_error"),
             {Event("raised", "chat")})
    ELSE Show([S1 EXCEPT !.messages =
                  <<UserTurn(prompt),
                    [role |-> "assistant", content |-> result.answer,
                     slides |-> result.relevant_slides]>>],
              "chat_answer")

TurnDone(S1, prompt, result) ==
    IF result.raised
    THEN Log(Show([S1 EXCEPT !.messages = @ \o <<UserTurn(prompt), ErrorTurn>>],
                  "chat_error"),
             {Event("raised", "chat")})
    ELSE Show([S1 EXCEPT !.messages = @ \o
                  <<UserTurn(prompt),
                    [role |-> "assistant", content |-> result.answer,
                     slides |-> result.relevant_slides]>>],
              "chat_answer")

\* a chat turn: the user's turn is appended and chat gets the turns before it
ChatTurn(S1, has_client, prompt, gen1, gen2) ==
    IF prompt = Absent THEN S1
    ELSE TurnDone(S1, prompt,
                  chat(S1.collection_id, S1.entries, S1.query_engine.handle,
                       has_client, prompt, S1.messages, gen1, gen2))

\* the pending query that a typed prompt replaces is dropped
Dropped(S, ev) ==
    IF ev.kind = "chat_input" /\ S.pending_query # Absent
    THEN {Event("discarded", "pending_query")} ELSE {}

render_chat_interface_KeepPending(S, has_client, ev, gen1, gen2) ==
    IF ~S.embeddings_ready THEN Show(S, "chat_upload_first")
    ELSE ChatTurn(Log([S EXCEPT !.query_engine = EngineOf(S)], Dropped(S, ev)),
                  has_client, PromptOf(S, ev), gen1, gen2)

\* render_chat_interface: needs embeddings_ready; creates the engine once;
\* pops the pending query; a typed prompt, else the pending query, becomes a
\* chat turn
render_chat_interface(S, has_client, ev, gen1, gen2) ==
    IF ~S.embeddings_ready THEN Show(S, "chat_upload_first")
    ELSE ChatTurn(Log([S EXCEPT !.query_engine = EngineOf(S), !.pending_query = Absent],
                      Dropped(S, ev)),
                  has_client, PromptOf(S, ev), gen1, gen2)

\* the question on the suggested-question button with the key `key`
ButtonQuestion(questions, key) ==
    IF key = "suggested_q_0" /\ Len(questions) >= 1 THEN questions[1]
    ELSE IF key = "suggested_q_1" /\ Len(questions) >= 2 THEN questions[2]
    ELSE Absent

\* the buttons of the cached list; a clicked one queues its question
SuggestionButtons(S, questions, ev) ==
    IF questions = <<>> THEN S
    ELSE IF ev.kind = "suggested_q" /\ ButtonQuestion(questions, ev.text) # Absent
    THEN add_user_query(Show(S, "suggested_questions"),
                        ButtonQuestion(questions, ev.text))
    ELSE Show(S, "suggested_questions")

\* the cache key of the language is set to the generated list, to [] when
\* the generation raised
Cached(S, g) ==
    Log([S EXCEPT !.suggested[S.language] =
                      [cached |-> TRUE,
                       questions |-> IF g.raised THEN <<>> ELSE g.questions]],
        {Event("generated", S.language)}
            \cup (IF g.raised \/ g.failed THEN {Event("raised", "questions")} ELSE {}))

\* the list is generated, by a new QueryEngine, when its key is not cached
WithSuggestions(S, has_client, reply) ==
    IF S.suggested[S.language].cached THEN S
    ELSE Cached(S, generate_example_questions(S.collection_id, S.entries,
                       S.collection_id, has_client, SuggestedCount, S.language, reply))

\* the cached list of the language as buttons
SuggestionsOf(S, ev) == SuggestionButtons(S, S.suggested[S.language].questions, ev)

\* render_suggested_questions
render_suggested_questions(S, has_client, ev, reply) ==
    IF ~S.embeddings_ready THEN S
    ELSE SuggestionsOf(WithSuggestions(S, has_client, reply), ev)

\* main after render_quick_actions: st.rerun() ends the run, else the
\* suggested questions are rendered
AfterQuickActions(S3, has_client, ev, reply) ==
    IF S3.rerun THEN S3 ELSE render_suggested_questions(S3, has_client, ev, reply)

\* main after render_chat_controls: st.rerun() ends the run, else the chat
\* and the quick actions are rendered
AfterControls(S2, has_client, ev, gen1, gen2, reply) ==
    IF S2.rerun THEN S2
    ELSE AfterQuickActions(
             render_quick_actions(render_chat_interface(S2, has_client, ev, gen1, gen2), ev),
             has_client, ev, reply)

\* main after the sidebar: the welcome cards without a processed file
AfterUpload(S1, has_client, ev, gen1, gen2, reply) ==
    IF S1.processed_file.name = Absent THEN Show(S1, "welcome")
    ELSE AfterControls(render_chat_controls(S1, ev), has_client, ev, gen1, gen2, reply)

OtherLanguage(lang) == IF lang = "en" THEN "ar" ELSE "en"

\* main from the top of the sidebar: the language button switches the
\* language and reruns; otherwise the upload section, the overview of the
\* presentation it returned and the main area
FromSidebar(S0, has_client, file, ev, outcome, gen1, gen2, reply) ==
    IF ev.kind = "toggle_language"
    THEN [S0 EXCEPT !.language = OtherLanguage(@), !.rerun = TRUE]
    ELSE AfterUpload(render_file_info(render_upload_section(S0, file, outcome)),
                     has_client, ev, gen1, gen2, reply)

\* main: the upload section, then, with a processed file, the chat controls,
\* the chat, the quick actions and the suggested questions
main(S, has_client, file, ev, outcome, gen1, gen2, reply) ==
    FromSidebar([S EXCEPT !.shown = {}, !.log = {}, !.rerun = FALSE],
                has_client, file, ev, outcome, gen1, gen2, reply)

Session ==
    [collection_id |-> collection_id, entries |-> collection,
     processed_file |-> processed_file, embeddings_ready |-> embeddings_ready,
     messages |-> messages, query_engine |-> query_engine,
     pending_query |-> pending_query, rerun |-> rerun_requested, shown |-> shown,
     language |-> language, suggested |-> suggested, log |-> log,
     presentation |-> NoPresentation]

\* the state after a run that ends in T
Becomes(T, file) ==
    /\ T.collection_id <= MaxCollections
    /\ uploaded_file' = file
    /\ collection_id' = T.collection_id
    /\ collection' = T.entries
    /\ processed_file' = T.processed_file
    /\ embeddings_ready' = T.embeddings_ready
    /\ messages' = T.messages
    /\ query_engine' = T.query_engine
    /\ pending_query' = T.pending_query
    /\ rerun_requested' = T.rerun
    /\ shown' = T.shown
    /\ language' = T.language
    /\ suggested' = T.suggested
    /\ log' = T.log
    /\ UNCHANGED <<client, res, uploaders, ids_used>>

\* one run of the script with `file` in the uploader and the event `ev`
RunScript(file, ev, outcome, gen1, gen2, reply) ==
    Becomes(main(Session, client, file, ev, outcome, gen1, gen2, reply), file)

\* The outcomes a run can depend on: the upload is processed only for a file
\* whose name is not the processed one, and the model is called only by a
\* chat turn of an engine that has a client.
OutcomesFor(file) ==
    IF file.name # Absent /\ file.name # processed_file.name
    THEN (IF file.slides = <<>> THEN UploadOutcomes \ {"upsert_fails"}
          ELSE UploadOutcomes)
    ELSE {"ok"}
Gen1For(turn) == IF turn /\ client THEN GenOutcomes ELSE {GenFail}
Gen2For(gen1) == IF gen1 # GenFail THEN GenOutcomes ELSE {GenFail}

\* the replies to the example-questions prompt: the call fails, or a reply
\* of an empty line and one question, the one the user also types.  A list
\* is generated only with a client, on a cache miss or after an upload, and
\* from a store that holds slides.
GoodReply == [failed |-> FALSE, lines |-> <<"", "q1">>]
RepliesFor(file) ==
    IF /\ client
       /\ \/ ~suggested[language].cached
          \/ (file.name # Absent /\ file.name # processed_file.name)
       /\ (file.slides # <<>> \/ collection # {})
    THEN {FailedReply, GoodReply} ELSE {FailedReply}

\* entries a previous run of the application left in the persistent store
Leftover ==
    UpsertAll({}, slides_to_embed(process_uploaded_file(
        [name |-> "B.pptx", slides |-> [i \in 1..MaxSlides |-> DeckSlide(i)]])))

Init ==
    /\ collection_id = 1
    /\ collection \in {{}, Leftover}
    /\ client \in BOOLEAN
    /\ res = [op |-> "init"]
    /\ SessionIdle
    /\ UploadersIdle

\* the user puts a file into the uploader
SelectFile ==
    \E file \in Files : \E outcome \in OutcomesFor(file), reply \in RepliesFor(file) :
        /\ ~rerun_requested
        /\ file # uploaded_file
        /\ RunScript(file, NoEvent, outcome, GenFail, GenFail, reply)

\* the user removes the file from the uploader
RemoveFile ==
    \E reply \in RepliesFor(NoFile) :
        /\ ~rerun_requested
        /\ uploaded_file # NoFile
        /\ RunScript(NoFile, NoEvent, "ok", GenFail, GenFail, reply)

\* the user submits a prompt in st.chat_input
SubmitChat ==
    \E prompt \in Prompts, outcome \in OutcomesFor(uploaded_file),
       gen1 \in Gen1For(TRUE), gen2 \in GenOutcomes, reply \in RepliesFor(uploaded_file) :
        /\ gen2 \in Gen2For(gen1)
        /\ ~rerun_requested
        /\ processed_file.name # Absent
        /\ embeddings_ready
        /\ Len(messages) < 2 * MaxTurns
        /\ RunScript(uploaded_file, [kind |-> "chat_input", text |-> prompt],
                     outcome, gen1, gen2, reply)

\* a prompt submitted in st.chat_input reaches the run that st.rerun() asked
\* for after a quick action: the run has a typed prompt and a pending query
SubmitChatWhilePending ==
    \E prompt \in Prompts, outcome \in OutcomesFor(uploaded_file),
       gen1 \in Gen1For(TRUE), gen2 \in GenOutcomes, reply \in RepliesFor(uploaded_file) :
        /\ gen2 \in Gen2For(gen1)
        /\ rerun_requested
        /\ pending_query # Absent
        /\ RunScript(uploaded_file, [kind |-> "chat_input", text |-> prompt],
                     outcome, gen1, gen2, reply)

\* the user clicks the clear-chat button
ClickClearChat ==
    \E outcome \in OutcomesFor(uploaded_file) :
        /\ ~rerun_requested
        /\ processed_file.name # Absent
        /\ RunScript(uploaded_file, [kind |-> "clear_chat", text |-> Absent],
                     outcome, GenFail, GenFail, FailedReply)

\* the user clicks a quick-action button
ClickQuickAction ==
    \E text \in QuickQueries, outcome \in OutcomesFor(uploaded_file) :
        /\ ~rerun_requested
        /\ processed_file.name # Absent
        /\ Len(messages) < 2 * MaxTurns
        /\ RunScript(uploaded_file, [kind |-> "quick_action", text |-> text],
                     outcome, GenFail, GenFail, FailedReply)

\* the user clicks one of the suggested questions the last run displayed
ClickSuggestedQuestion ==
    \E key \in {"suggested_q_0", "suggested_q_1"},
       outcome \in OutcomesFor(uploaded_file), reply \in RepliesFor(uploaded_file) :
        /\ ~rerun_requested
        /\ "suggested_questions" \in shown
        /\ ButtonQuestion(suggested[language].questions, key) # Absent
        /\ Len(messages) < 2 * MaxTurns
        /\ RunScript(uploaded_file, [kind |-> "suggested_q", text |-> key],
                     outcome, GenFail, GenFail, reply)

\* the user clicks the language button of the sidebar
ToggleLanguage ==
    /\ ~rerun_requested
    /\ RunScript(uploaded_file, [kind |-> "toggle_language", text |-> Absent],
                 "ok", GenFail, GenFail, FailedReply)

\* the run st.rerun() asked for
Rerun ==
    \E outcome \in OutcomesFor(uploaded_file),
       gen1 \in Gen1For(pending_query # Absent), gen2 \in GenOutcomes,
       reply \in RepliesFor(uploaded_file) :
        /\ gen2 \in Gen2For(gen1)
        /\ rerun_requested
        /\ RunScript(uploaded_file, NoEvent, outcome, gen1, gen2, reply)

\* Spec: a session of uploads and chats in the default language
Next ==
    \/ SelectFile \/ RemoveFile \/ SubmitChat \/ SubmitChatWhilePending
    \/ ClickClearChat \/ ClickQuickAction \/ Rerun

Spec == Init /\ [][Next]_vars

\* SpecSuggest: a session of uploads in which the user switches the language
\* and asks the suggested questions
NextSuggest == SelectFile \/ ToggleLanguage \/ ClickSuggestedQuestion \/ Rerun

SpecSuggest == Init /\ [][NextSuggest]_vars

UploadSucceeded == "upload_success" \in shown

\* C4: after every successful upload all entries of the store carry the
\* filename of that upload, and no search returns a result of another file.
C4_StoreHoldsOnlyLastUpload ==
    UploadSucceeded =>
        /\ processed_file.name = uploaded_file.name
        /\ \A e \in collection : e.metadata.filename = uploaded_file.name
        /\ \A q \in Questions \cup QuickQueries, k \in TopKs :
               LET found == search(collection_id, collection, collection_id, q, k).results
               IN \A i \in 1..Len(found) :
                      found[i].metadata.filename = uploaded_file.name

\* B.pptx was uploaded after a chat about A.pptx that retrieved A's slides
C4_Witness ==
    /\ UploadSucceeded
    /\ uploaded_file.name = "B.pptx"
    /\ collection # {}
    /\ \E i \in 1..Len(messages) :
           /\ messages[i].role = "assistant"
           /\ messages[i].content.kind \in {"simple", "llm"}
           /\ messages[i].slides # <<>>
           /\ messages[i].slides[1].metadata.filename = "A.pptx"

\* the run that just ended appended a chat turn
TurnInRun == "chat_answer" \in shown \/ "chat_error" \in shown

\* C10 (as claimed): after a new document is successfully ingested the
\* session's chat history is empty: when the run that ingested it ends, and
\* before any turn about the new document, no earlier turn remains.
C10_UploadEmptiesHistory ==
    (UploadSucceeded /\ ~TurnInRun) => messages = <<>>

ExtractionRaised == Event("raised", "extract") \in log

\* C13: a run in which extraction of the uploaded file raises leaves the
\* store (its collection and entries), the loaded-document pointer and the
\* readiness flag as they were before the run, and shows an upload error.
C13_ExtractionFailureKeepsStore ==
    [][ExtractionRaised' =>
            /\ collection' = collection
            /\ collection_id' = collection_id
            /\ processed_file' = processed_file
            /\ embeddings_ready' = embeddings_ready
            /\ "upload_error" \in shown']_vars

\* extraction of another file failed while a presentation was loaded
C13_Witness ==
    /\ ExtractionRaised
    /\ "upload_error" \in shown
    /\ processed_file.name = "A.pptx"
    /\ uploaded_file.name = "B.pptx"
    /\ embeddings_ready
    /\ \E e \in collection : e.metadata.filename = "A.pptx"

ChatRaised == Event("raised", "chat") \in log

\* the history holds an error turn
HasErrorTurn(history) == \E i \in 1..Len(history) : history[i] = ErrorTurn

\* C14: a run whose chat call raises appends to the history the user's turn
\* and exactly one assistant turn holding the error message, and ends as
\* every run does, leaving the chat input available; a prompt submitted when
\* the history holds an error turn is processed as a turn like any other.
C14_ChatErrorBecomesTurn ==
    [][/\ ChatRaised' =>
              /\ \E prompt \in Prompts \cup QuickQueries :
                     messages' = messages \o <<UserTurn(prompt), ErrorTurn>>
              /\ "chat_error" \in shown'
              /\ pending_query' = Absent
              /\ ~rerun_requested' /\ embeddings_ready'
              /\ processed_file'.name # Absent
       /\ (HasErrorTurn(messages) /\ TurnInRun') =>
              /\ Len(messages') = Len(messages) + 2
              /\ SubSeq(messages', 1, Len(messages)) = messages
              /\ messages'[Len(messages) + 1].role = "user"
              /\ messages'[Len(messages) + 2].role = "assistant"]_vars

\* a turn was answered after a turn that ended in the error message
C14_Witness ==
    /\ Len(messages) = 4
    /\ messages[2] = ErrorTurn
    /\ messages[4].role = "assistant"
    /\ messages[4].content.kind \in {"simple", "llm"}
    /\ "chat_answer" \in shown

\* C15 (as claimed): every exception raised in the run has a visible
\* consequence: an upload error, an error turn, or, for the example
\* questions, an error message or fallback questions.
C15_NoSilentFailure ==
    \A e \in log :
        e.what = "raised" =>
            /\ e.arg \in {"extract", "upsert"} => "upload_error" \in shown
            /\ e.arg = "chat" =>
                   "chat_error" \in shown /\ messages[Len(messages)] = ErrorTurn
            /\ e.arg = "questions" =>
                   \/ "suggested_questions" \in shown
                   \/ "questions_error" \in shown

\* C11: after a run that ingested a document every cached list, of any
\* language, was generated in that run after the ingestion; a run that
\* ingested none keeps every cached list as it was.
C11_SuggestionsFollowIngestion ==
    [][/\ UploadSucceeded' =>
              \A l \in Languages :
                  suggested'[l].cached => Event("generated", l) \in log'
       /\ ~UploadSucceeded' =>
              \A l \in Languages :
                  suggested[l].cached => suggested'[l] = suggested[l]]_vars

\* an upload deleted the cached lists of both languages and the list of the
\* current language was generated again
C11_Witness ==
    /\ UploadSucceeded
    /\ {Event("deleted", l) : l \in Languages} \subseteq log
    /\ language = "ar"
    /\ suggested["ar"].questions # <<>>
    /\ ~suggested["en"].cached

\* the run cleared the chat
ChatCleared == \E e \in log : e.what = "cleared"

\* the sequence a is the beginning of the sequence b
IsPrefix(a, b) == Len(a) <= Len(b) /\ SubSeq(b, 1, Len(a)) = a

\* C21: a run that does not click clear-chat leaves every turn of the history
\* in place and unchanged and adds nothing, or adds the two turns of a chat
\* turn at the end; a run that clicks clear-chat leaves the history empty.
C21_HistoryAppendOnly ==
    [][/\ ChatCleared' => messages' = <<>>
       /\ ~ChatCleared' =>
              /\ IsPrefix(messages, messages')
              /\ Len(messages') \in {Len(messages), Len(messages) + 2}]_vars

\* clear-chat was clicked on a history that held turns
C21_Witness ==
    /\ Event("cleared", "turns") \in log
    /\ messages = <<>>
    /\ rerun_requested
    /\ embeddings_ready

\* C23 (as claimed): the engine the session holds is bound to the current
\* collection, and a chat turn in fallback mode on a store that holds slides
\* does not fail and retrieves slides of the loaded document.
C23_EngineFollowsUpload ==
    /\ query_engine.created => query_engine.handle = collection_id
    /\ (TurnInRun /\ ~client /\ collection # {}) =>
           /\ messages[Len(messages)] # ErrorTurn
           /\ messages[Len(messages)].slides # <<>>
           /\ \A i \in 1..Len(messages[Len(messages)].slides) :
                  messages[Len(messages)].slides[i].metadata.filename
                      = processed_file.name

\* the entries an upload of the loaded document leaves in an empty collection
LoadedEntries == UpsertAll({}, slides_to_embed(processed_file.data))

\* C24 (as claimed): when the session reports a loaded document the store
\* holds exactly the entries of that document and is not empty.
C24_LoadedDocumentInStore ==
    (embeddings_ready /\ processed_file.name # Absent) =>
        /\ collection = LoadedEntries
        /\ collection # {}

\* the turns have even length and alternate user, assistant from a user turn
Alternates(turns) ==
    /\ Len(turns) % 2 = 0
    /\ \A i \in 1..Len(turns) :
           turns[i].role = IF i % 2 = 1 THEN "user" ELSE "assistant"

\* the turns sent to the model start with a user turn, alternate and end with
\* a user turn
AlternatesToUser(turns) ==
    /\ Len(turns) % 2 = 1
    /\ \A i \in 1..Len(turns) :
           turns[i].role = IF i % 2 = 1 THEN "user" ELSE "assistant"

\* the turns chat sends for a message after a history
SentTurns(history, message) ==
    ChatRequest([relevant_slides |-> <<>>], message, history).messages

\* a history of n turns that alternates
AlternatingHistory(n) ==
    [i \in 1..n |-> IF i % 2 = 1 THEN UserTurn("q1") ELSE AssistantTurn("r1")]

\* C25: between runs the history has even length and alternates user,
\* assistant from a user turn; hence the turns chat sends for the next prompt
\* start with a user turn and alternate, also for an alternating history
\* longer than the window of 10 turns.
C25_HistoryAlternates ==
    /\ Alternates(messages)
    /\ \A prompt \in Prompts \cup QuickQueries :
           AlternatesToUser(SentTurns(messages, prompt))
    /\ \A n \in 0..(HistoryWindow \div 2 + 1) :
           /\ AlternatesToUser(SentTurns(AlternatingHistory(2 * n), "q1"))
           /\ Len(SentTurns(AlternatingHistory(2 * n), "q1")) <= HistoryWindow + 1

\* an answered turn was followed by a turn that ended in the error message
C25_Witness ==
    /\ Len(messages) = 4
    /\ TurnInRun
    /\ messages[4] = ErrorTurn
    /\ messages[2] # ErrorTurn
    /\ Len(SentTurns(messages, "q1")) = 5

\* C28: a run in which the uploader holds a file with the name of the loaded
\* document leaves the collection, its entries and the loaded document as
\* they were, displays the cached presentation, deletes no cached question
\* list and changes the history only by the chat turn or clear-chat of the
\* run, whatever the content of the file.
C28_SameNameUploadIsNoOp ==
    [][(uploaded_file'.name # Absent /\ uploaded_file'.name = processed_file.name) =>
           /\ collection' = collection
           /\ collection_id' = collection_id
           /\ processed_file' = processed_file
           /\ embeddings_ready' = embeddings_ready
           /\ "upload_loaded" \in shown'
           /\ FileOverview(processed_file.data) \in shown'
           /\ \A l \in Languages : suggested[l].cached => suggested'[l] = suggested[l]
           /\ \A e \in log' : e.what # "deleted"
           /\ (~TurnInRun' /\ ~ChatCleared') => messages' = messages]_vars

\* after a chat about the loaded document a file of the same name and other
\* content was put into the uploader
C28_Witness ==
    /\ "upload_loaded" \in shown
    /\ uploaded_file.name = processed_file.name
    /\ uploaded_file.slides # processed_file.data.slides
    /\ collection = LoadedEntries
    /\ collection # {}
    /\ messages # <<>>
    /\ ~TurnInRun
    /\ suggested[language].cached

\* the run dropped the pending query for a typed prompt
PendingDiscarded == Event("discarded", "pending_query") \in log

\* C29: the run after add_user_query removes the pending query and appends
\* one chat turn: that of the pending query, or, when a prompt was typed in
\* the same run, that of the typed prompt, the pending query being dropped;
\* a quick-action query becomes a turn only in such a run, with embeddings
\* ready, and no later run finds it.
C29_PendingQueryUsedOnce ==
    [][/\ pending_query # Absent =>
              /\ embeddings_ready
              /\ pending_query' = Absent
              /\ IsPrefix(messages, messages')
              /\ Len(messages') = Len(messages) + 2
              /\ ~PendingDiscarded' =>
                     messages'[Len(messages) + 1] = UserTurn(pending_query)
              /\ PendingDiscarded' =>
                     /\ messages'[Len(messages) + 1] # UserTurn(pending_query)
                     /\ \E prompt \in Prompts :
                            messages'[Len(messages) + 1] = UserTurn(prompt)
       /\ \A q \in QuickQueries :
              (/\ Len(messages') > Len(messages)
               /\ messages'[Len(messages) + 1] = UserTurn(q)) =>
                  (pending_query = q /\ ~PendingDiscarded')]_vars

\* a quick-action query became a turn, and a later one was dropped for a
\* typed prompt
C29_Witness ==
    /\ PendingDiscarded
    /\ pending_query = Absent
    /\ Len(messages) = 4
    /\ messages[1] = UserTurn("summarize")
    /\ messages[3] = UserTurn("q1")

(***************************************************************************)
(* SpecShared: two sessions upload against the same database.  The try     *)
(* block of render_upload_section makes four calls of the database, each   *)
(* atomic: EmbeddingsService() (get_or_create_collection), and in          *)
(* clear_collection delete_collection and get_or_create_collection, then   *)
(* the upsert of add_slides_batch.  A collection id of 0 stands for "no    *)
(* collection named slides".                                               *)
(***************************************************************************)
\* client.get_or_create_collection("slides"): the id of the collection
get_or_create_collection(coll_id, used) ==
    IF coll_id # 0 THEN [coll_id |-> coll_id, used |-> used]
    ELSE [coll_id |-> used + 1, used |-> used + 1]

delete_collection_KeepEntries(coll_id, entries) ==
    IF coll_id = 0 THEN [raised |-> TRUE, coll_id |-> coll_id, entries |-> entries]
    ELSE [raised |-> FALSE, coll_id |-> coll_id, entries |-> entries]

\* client.delete_collection("slides"): raises when there is none
delete_collection(coll_id, entries) ==
    IF coll_id = 0 THEN [raised |-> TRUE, coll_id |-> coll_id, entries |-> entries]
    ELSE [raised |-> FALSE, coll_id |-> 0, entries |-> {}]

\* the other session
Other(p) == CHOOSE q \in Uploaders : q # p

MidUpload(p) == uploaders[p].pc \in {"constructed", "deleted", "created"}

\* the record of the run: whether a step was taken while the other session
\* was inside its try block, and the sessions in the order they ended
Stepped(p, ended) ==
    [op |-> "uploads",
     overlapped |-> res.overlapped \/ MidUpload(Other(p)),
     ended |-> IF ended THEN Append(res.ended, p) ELSE res.ended]

InitShared ==
    /\ collection_id \in {0, 1}
    /\ collection \in (IF collection_id = 0 THEN {{}} ELSE {{}, Leftover})
    /\ ids_used = collection_id
    /\ client = FALSE
    /\ SessionIdle
    /\ uploaders = [p \in Uploaders |-> IdleUploader]
    /\ res = [op |-> "uploads", overlapped |-> FALSE, ended |-> <<>>]

\* processor.process_uploaded_file(file) and EmbeddingsService()
StartUpload(p) ==
    \E file \in Files :
        /\ uploaders[p].pc = "idle"
        /\ file.name # uploaders[Other(p)].file.name
        /\ LET c == get_or_create_collection(collection_id, ids_used)
           IN /\ collection_id' = c.coll_id
              /\ ids_used' = c.used
              /\ uploaders' = [uploaders EXCEPT
                                   ![p] = [pc |-> "constructed", handle |-> c.coll_id,
                                           file |-> file]]
        /\ res' = Stepped(p, FALSE)
        /\ UNCHANGED <<collection, client, uploaded_file, processed_file,
                       embeddings_ready, messages, query_engine, pending_query,
                       rerun_requested, shown, language, suggested, log>>

\* clear_collection, first call: delete_collection
DeleteCollection(p) ==
    /\ uploaders[p].pc = "constructed"
    /\ LET r == delete_collection(collection_id, collection)
       IN /\ collection_id' = r.coll_id
          /\ collection' = r.entries
          /\ uploaders' = [uploaders EXCEPT
                               ![p].pc = IF r.raised THEN "failed" ELSE "deleted"]
          /\ res' = Stepped(p, r.raised)
    /\ UNCHANGED <<ids_used, client, uploaded_file, processed_file,
                   embeddings_ready, messages, query_engine, pending_query,
                   rerun_requested, shown, language, suggested, log>>

\* clear_collection, second call: get_or_create_collection
CreateCollection(p) ==
    /\ uploaders[p].pc = "deleted"
    /\ LET c == get_or_create_collection(collection_id, ids_used)
       IN /\ collection_id' = c.coll_id
          /\ ids_used' = c.used
          /\ uploaders' = [uploaders EXCEPT ![p].pc = "created",
                                            ![p].handle = c.coll_id]
    /\ res' = Stepped(p, FALSE)
    /\ UNCHANGED <<collection, client, uploaded_file, processed_file,
                   embeddings_ready, messages, query_engine, pending_query,
                   rerun_requested, shown, language, suggested, log>>

\* add_slides_batch on the session's handle; the upsert raises on the handle
\* of a deleted collection
UpsertSlides(p) ==
    /\ uploaders[p].pc = "created"
    /\ LET batch == add_slides_batch(collection,
                         slides_to_embed(process_uploaded_file(uploaders[p].file)))
           stale == uploaders[p].handle # collection_id
                        /\ uploaders[p].file.slides # <<>>
       IN /\ collection' = IF stale THEN collection ELSE batch.entries
          /\ uploaders' = [uploaders EXCEPT
                               ![p].pc = IF stale \/ batch.raised
                                         THEN "failed" ELSE "done"]
    /\ res' = Stepped(p, TRUE)
    /\ UNCHANGED <<collection_id, ids_used, client, uploaded_file, processed_file,
                   embeddings_ready, messages, query_engine, pending_query,
                   rerun_requested, shown, language, suggested, log>>

NextShared ==
    \E p \in Uploaders :
        StartUpload(p) \/ DeleteCollection(p) \/ CreateCollection(p) \/ UpsertSlides(p)

SpecShared == InitShared /\ [][NextShared]_vars

BothEnded == \A p \in Uploaders : uploaders[p].pc \in {"done", "failed"}

\* the entries an upload of `file` into an empty collection leaves
EntriesOf(file) == UpsertAll({}, slides_to_embed(process_uploaded_file(file)))

\* C20: when the uploads of two different documents by two sessions run one
\* after the other, both succeed and the store holds exactly the entries of
\* the upload that ran last; only interleaved uploads can leave entries of
\* both documents in the store (the state of the witness).
C20_SerialUploadsKeepLast ==
    /\ (BothEnded /\ ~res.overlapped) =>
           /\ \A p \in Uploaders : uploaders[p].pc = "done"
           /\ collection = EntriesOf(uploaders[res.ended[2]].file)
    /\ (\E a, b \in collection : a.metadata.filename # b.metadata.filename) =>
           (res.overlapped \/ ~BothEnded)

\* both uploads ended successfully and the store holds slides of both files
C20_Witness ==
    /\ \A p \in Uploaders : uploaders[p].pc = "done"
    /\ res.overlapped
    /\ \E e \in collection : e.metadata.filename = uploaders[1].file.name
    /\ \E e \in collection : e.metadata.filename = uploaders[2].file.name

====
